---- MODULE Spec2Model ----
(***************************************************************************)
(* Model of r2/r2/lib/promote.py: the daily scheduling pass, the live-set  *)
(* publisher and the billing reconciler of promoted links.                 *)
(*                                                                         *)
(* Money is counted in mills (tenths of a cent) so that the rounding of    *)
(* get_billable_amount and get_refund_amount to whole cents is visible.    *)
(* Days are integers relative to the promotion day "today" (Today).        *)
(***************************************************************************)
EXTENDS Integers, Sequences, FiniteSets, TLC

\* ------------------------------------------------------------------ bounds
NumCampaigns == 2
NumLinks == 2
MaxRuns == 2
MaxBidCents == 2

Campaigns == 1..NumCampaigns
Links == 1..NumLinks

\* ------------------------------------------------------------- constants
\* PROMOTE_STATUS enumeration (r2.models): the position of a name is its value.
PROMOTE_STATUS ==
    [unpaid |-> 0, unseen |-> 1, accepted |-> 2, rejected |-> 3,
     pending |-> 4, promoted |-> 5, finished |-> 6]

Statuses == 0..6

\* One cent in mills: Decimal('.01') is the quantum of both roundings.
Cent == 10

\* promo_datetime_now(): the current promotion day; offsets are added to it.
Today == 0

\* The days the model knows: the day before yesterday up to tomorrow.
Days == (Today - 2)..(Today + 1)

\* The daysago arguments finalize_completed_campaigns is called with.
DaysAgo == {1, 2}

\* hasattr(camp, 'refund_amount') is false: the attribute is absent.
NoRefund == -1

\* Subreddit names campaigns target; "" targets all (the global audience).
SrNames == {"", "sra", "srb"}

\* LiveAdWeights keys: subreddit ids, FRONT_PAGE and ALL_ADS.
FRONT_PAGE == "frontpage"
ALL_ADS == "all"

\* Subreddits whose over_18 flag is set.
Over18Srs == {"srb"}

Procs == {1, 2}

VARIABLES
    camp,            \* [Campaigns -> record]: the stored PromoCampaign things
    trans_id,        \* campaign.trans_id: 0 none, -1 freebie, > 0 gateway id
    refund_amount,   \* campaign.refund_amount in mills, NoRefund when absent
    promote_status,  \* link.promote_status
    over_18,         \* link.over_18
    promo_weights,   \* PromotionWeights records
    bid_status,      \* gateway: state of the campaign's current transaction
    live,            \* LiveAdWeights store: key -> set of AdWeight
    log,             \* PromotionLog: per link, the sequence of entries
    health,          \* NamedGlobals[PROMO_HEALTH_KEY]
    clock,           \* time.time(), advanced by every pass
    underdelivered,  \* the underdelivered-campaigns query
    marks,           \* calls of set_underdelivered_campaigns, per campaign
    charge_reqs,     \* charge requests the gateway received:
                     \*   <<campaign, invocation, run of the invocation>>
    charge_acks,     \* those of charge_reqs the gateway answered True
    refund_reqs,     \* number of refund requests the gateway received
    refunded,        \* per campaign, the sum the gateway agreed to refund
    missing_traffic, \* the days traffic data is missing for
    impressions,     \* delivered impressions per campaign over its run
    last,            \* outcome of the latest make_daily_promotions pass
    finalized,       \* per daysago, the finalize passes that ran to their end
    queue,           \* update_promos_q: the messages not yet consumed
    pc,              \* per charge_pending invocation: position
    todo,            \* per invocation: campaigns the generator has yet to yield
    cur,             \* per invocation: the campaign being handled
    snap,            \* per invocation: link objects as loaded (promote_status)
    runs,            \* per invocation: completed runs
    pub,             \* the set_live_promotions call in progress, if any
    result           \* what the latest call of another operation returned

vars == <<camp, trans_id, refund_amount, promote_status, over_18, promo_weights,
          bid_status, live, log, health, clock, underdelivered, marks,
          charge_reqs, charge_acks, refund_reqs, missing_traffic, impressions,
          last, pc, todo, cur, snap, runs, refunded, finalized, queue, pub,
          result>>

campVars == <<camp, trans_id, promo_weights, impressions, missing_traffic>>
chargeVars == <<pc, todo, cur, snap, runs>>
gatewayCounters == <<charge_reqs, charge_acks, refund_reqs, refunded>>
billingVars == <<refund_amount, underdelivered, marks, finalized>>
publishVars == <<live, health, clock, last, over_18, queue>>
callVars == <<pub, result>>

\* ---------------------------------------------------------------- helpers
Min(a, b) == IF a <= b THEN a ELSE b
Max(a, b) == IF a >= b THEN a ELSE b

RECURSIVE SortedSeq(_)
\* The elements of a finite set of integers in ascending order.
SortedSeq(S) ==
    IF S = {} THEN <<>>
    ELSE LET m == CHOOSE x \in S : \A y \in S : x <= y
         IN <<m>> \o SortedSeq(S \ {m})

\* ------------------------------------------------------------- booleans
is_promo(l) == l \in Links

\* Mutant: a rejected link counts as accepted, its value being above accepted.
is_accepted_status_ordered(s) == s >= PROMOTE_STATUS.accepted

\* Mutant: only the status accepted itself counts as accepted.
is_accepted_status_exact(s) == s = PROMOTE_STATUS.accepted

is_accepted_status(s) ==
    /\ s # PROMOTE_STATUS.rejected
    /\ s >= PROMOTE_STATUS.accepted

is_accepted(l) == is_promo(l) /\ is_accepted_status(promote_status[l])

\* Mutant: no status counts as promoted.
is_promoted_status_never(s) == FALSE

\* Mutant: every status counts as promoted.
is_promoted_status_always(s) == TRUE

is_promoted_status(s) == s = PROMOTE_STATUS.promoted

\* Mutant: no link counts as promoted.
is_promoted_never(l) == FALSE

is_promoted(l) == is_promo(l) /\ is_promoted_status(promote_status[l])

\* ------------------------------------------------------------- scheduler
\* PromotionWeights.get_campaigns(date)
get_campaigns(day) == {pw \in promo_weights : pw.date = day}

\* The weight records accepted_campaigns yields for Today + offset: the
\* campaign exists and belongs to an accepted link, and is not a cpm campaign
\* without a transaction.
accepted_campaigns(offset) ==
    LET pws == get_campaigns(Today + offset)
        accepted_links == {l \in {pw.thing_name : pw \in pws} : is_accepted(l)}
        campaigns == {c \in Campaigns :
                        camp[c].exists /\ camp[c].link_id \in accepted_links}
    IN {pw \in pws :
          /\ pw.promo_idx \in campaigns
          /\ ~(trans_id[pw.promo_idx] = 0 /\ camp[pw.promo_idx].priority_cpm)}

\* authorize.is_charged_transaction(trans_id, campaign)
is_charged_transaction(c) ==
    /\ trans_id[c] # 0
    /\ bid_status[c] = "charged"

\* Mutant: every campaign counts as charged.
charged_or_not_needed_always(c) == TRUE

\* Mutant: the charged state of the transaction is not consulted.
charged_or_not_needed_unguarded(c) == ~camp[c].priority_cpm

charged_or_not_needed(c) ==
    LET charged == is_charged_transaction(c)
        needs_charge == camp[c].priority_cpm
    IN charged \/ ~needs_charge


\* ------------------------------------------------------- payment gateway
\* What authorize.charge_transaction can answer for the campaign's current
\* transaction: True ("ok") only for a transaction that is authorized or was
\* already charged, False ("declined"), or a gateway fault.
ChargeOutcomes(c) ==
    IF bid_status[c] \in {"auth", "charged"}
    THEN {"ok", "declined", "fault"}
    ELSE {"declined", "fault"}

\* What charged_or_not_needed does when called for a record: it returns, or
\* it raises (corrupt campaign data, a gateway fault).
CheckOutcomes == {"returns", "raises"}

\* ---------------------------------------------------------- charge_pending
\* The for statement's first step: accepted_campaigns loads the weight
\* records, the links and the campaigns for Today + offset.
ChargeStart(p, offset, maxruns) ==
    /\ pc[p] = "idle"
    /\ runs[p] < maxruns
    /\ pc' = [pc EXCEPT ![p] = "loop"]
    /\ todo' = [todo EXCEPT ![p] =
                   {pw.promo_idx : pw \in accepted_campaigns(offset)}]
    /\ snap' = [snap EXCEPT ![p] = promote_status]
    /\ UNCHANGED <<cur, runs>>
    /\ UNCHANGED <<callVars, campVars, gatewayCounters, billingVars, publishVars,
                   promote_status, bid_status, log>>

\* The guard of one iteration: skip the campaign when charged_or_not_needed
\* holds or raises (the bare except prints and the loop goes on).
ChargeCheck(p) ==
    /\ pc[p] = "loop"
    /\ todo[p] # {}
    /\ LET c == CHOOSE x \in todo[p] : \A y \in todo[p] : x <= y
       IN \E chk \in CheckOutcomes :
            /\ todo' = [todo EXCEPT ![p] = @ \ {c}]
            /\ IF chk = "raises" \/ charged_or_not_needed(c)
               THEN UNCHANGED <<pc, cur>>
               ELSE /\ pc' = [pc EXCEPT ![p] = "charge"]
                    /\ cur' = [cur EXCEPT ![p] = c]
    /\ UNCHANGED <<snap, runs>>
    /\ UNCHANGED <<callVars, campVars, gatewayCounters, billingVars, publishVars,
                   promote_status, bid_status, log>>

\* authorize.charge_transaction and what follows a successful charge.
ChargeTransaction(p) ==
    /\ pc[p] = "charge"
    /\ LET c == cur[p]
           l == camp[c].link_id
       IN \E res \in ChargeOutcomes(c) :
            /\ charge_reqs' = charge_reqs \cup {<<c, p, runs[p]>>}
            /\ IF res = "ok"
               THEN /\ charge_acks' = charge_acks \cup {<<c, p, runs[p]>>}
                    /\ bid_status' = [bid_status EXCEPT ![c] = "charged"]
                    /\ IF is_promoted_status(snap[p][l])
                       THEN UNCHANGED <<promote_status, snap>>
                       ELSE /\ promote_status' = [promote_status EXCEPT
                                                    ![l] = PROMOTE_STATUS.pending]
                            /\ snap' = [snap EXCEPT
                                          ![p][l] = PROMOTE_STATUS.pending]
                    /\ log' = [log EXCEPT ![l] = Append(@, <<"auth charge", c>>)]
               ELSE UNCHANGED <<charge_acks, bid_status, promote_status,
                                snap, log>>
    /\ pc' = [pc EXCEPT ![p] = "loop"]
    /\ UNCHANGED <<todo, cur, runs, refund_reqs, refunded>>
    /\ UNCHANGED <<callVars, campVars, billingVars, publishVars>>

\* The generator is exhausted: charge_pending returns.
ChargeDone(p) ==
    /\ pc[p] = "loop"
    /\ todo[p] = {}
    /\ pc' = [pc EXCEPT ![p] = "idle"]
    /\ runs' = [runs EXCEPT ![p] = @ + 1]
    /\ UNCHANGED <<todo, cur, snap>>
    /\ UNCHANGED <<callVars, campVars, gatewayCounters, billingVars, publishVars,
                   promote_status, bid_status, log>>

\* ------------------------------------------------------------ initial states
\* Link ownership up to renaming of links: campaign 1 is on link 1 and every
\* campaign is on a link already used or on the next unused one.
LinkAssignments ==
    {f \in [Campaigns -> Links] :
        /\ f[1] = 1
        /\ \A c \in Campaigns : c > 1 =>
              \E d \in 1..(c - 1) : f[c] <= f[d] + 1}

\* Choices of one of n campaign profiles per campaign, up to renaming of
\* campaigns.
ProfileChoices(n) ==
    {pf \in [Campaigns -> 1..n] :
        \A c \in Campaigns : c > 1 => pf[c - 1] <= pf[c]}

\* The bid of every campaign of the model.
FullBid == MaxBidCents * Cent

\* PromotionWeights.add(link, campaign._id, sr_name, start, end, bid): one
\* record per day of the run.
WeightsOf(cfg) ==
    {[promo_idx |-> x[1], thing_name |-> cfg[x[1]].link_id,
      sr_name |-> cfg[x[1]].sr_name, date |-> x[2], weight |-> cfg[x[1]].bid] :
        x \in {y \in Campaigns \X Days :
                 /\ cfg[y[1]].start_date <= y[2]
                 /\ y[2] <= cfg[y[1]].end_date}}

\* The campaigns, their transactions and their traffic as the profiles say.
InitCampaigns(Profiles, la, pf) ==
    /\ camp = [c \in Campaigns |->
                 [exists |-> Profiles[pf[c]].exists, link_id |-> la[c],
                  sr_name |-> Profiles[pf[c]].sr_name,
                  priority_cpm |-> Profiles[pf[c]].priority_cpm,
                  has_cpm |-> Profiles[pf[c]].has_cpm, cpm |-> 500,
                  bid |-> FullBid,
                  start_date |-> Profiles[pf[c]].start_date,
                  end_date |-> Profiles[pf[c]].end_date]]
    /\ trans_id = [c \in Campaigns |-> Profiles[pf[c]].trans_id]
    /\ bid_status = [c \in Campaigns |-> Profiles[pf[c]].bid_status]
    /\ impressions = [c \in Campaigns |-> Profiles[pf[c]].impressions]
    /\ promo_weights = WeightsOf(camp)
    /\ refund_amount = [c \in Campaigns |-> NoRefund]

\* No set_live_promotions call is in progress; no other call was made yet.
NoPublish == [calls |-> <<>>, written |-> {}, old |-> [k \in {} |-> {}]]

NoResult == [op |-> "none"]

NoPass == [outcome |-> "none", errors |-> {},
           scheduled |-> {}, weights |-> [a \in {} |-> {}],
           published |-> FALSE, test |-> FALSE]

InitRest ==
    /\ over_18 = [l \in Links |-> FALSE]
    /\ live = [k \in {ALL_ADS} |-> {}]
    /\ log = [l \in Links |-> <<>>]
    /\ health = 0
    /\ clock = 0
    /\ underdelivered = {}
    /\ marks = [c \in Campaigns |-> 0]
    /\ charge_reqs = {}
    /\ charge_acks = {}
    /\ refund_reqs = 0
    /\ refunded = [c \in Campaigns |-> 0]
    /\ finalized = [d \in DaysAgo |-> 0]
    /\ queue = <<>>
    /\ last = NoPass
    /\ pub = NoPublish
    /\ result = NoResult
    /\ pc = [p \in Procs |-> "idle"]
    /\ todo = [p \in Procs |-> {}]
    /\ cur = [p \in Procs |-> 1]
    /\ snap = [p \in Procs |-> [l \in Links |-> PROMOTE_STATUS.unpaid]]
    /\ runs = [p \in Procs |-> 0]

\* Link statuses drawn from S; links without a campaign were never paid for.
StatusChoices(la, S) ==
    {s \in [Links -> S \cup {PROMOTE_STATUS.unpaid}] :
        \A l \in Links :
           IF \A c \in Campaigns : la[c] # l
           THEN s[l] = PROMOTE_STATUS.unpaid
           ELSE s[l] \in S}

\* A campaign running today and tomorrow on the global audience.
Running(priority_cpm, tid, bstat) ==
    [exists |-> TRUE, sr_name |-> "", priority_cpm |-> priority_cpm,
     has_cpm |-> TRUE, trans_id |-> tid, bid_status |-> bstat,
     start_date |-> Today, end_date |-> Today + 1, impressions |-> 0]

\* Campaigns in every billing state: cpm without a transaction, authorized,
\* charged, voided (edit_campaign voids and keeps the id), an authorized
\* freebie, and a flat-priced campaign that has no transaction.
ChargeProfiles ==
    <<Running(TRUE, 0, "none"), Running(TRUE, 1, "auth"),
      Running(TRUE, 1, "charged"), Running(TRUE, 1, "void"),
      Running(TRUE, -1, "auth"), Running(FALSE, 0, "none")>>

InitCharge ==
    /\ \E la \in LinkAssignments :
          /\ \E pf \in ProfileChoices(Len(ChargeProfiles)) :
                InitCampaigns(ChargeProfiles, la, pf)
          /\ promote_status \in StatusChoices(la,
                {PROMOTE_STATUS.unseen, PROMOTE_STATUS.accepted,
                 PROMOTE_STATUS.rejected, PROMOTE_STATUS.promoted})
    /\ missing_traffic = {}
    /\ InitRest

\* charge_pending run repeatedly, one run after the other.
NextCharge ==
    \/ \E offset \in {0, 1} : ChargeStart(1, offset, MaxRuns)
    \/ ChargeCheck(1)
    \/ ChargeTransaction(1)
    \/ ChargeDone(1)

SpecCharge == InitCharge /\ [][NextCharge]_vars

\* Two charge_pending invocations for today whose steps interleave (the
\* hourly Run job and accept_promotion both call it).
NextOverlap ==
    \E p \in Procs :
        \/ ChargeStart(p, 0, 1)
        \/ ChargeCheck(p)
        \/ ChargeTransaction(p)
        \/ ChargeDone(p)

SpecOverlap == InitCharge /\ [][NextOverlap]_vars

\* The number of events of E that concern campaign c.
EventsOf(E, c) == Cardinality({e \in E : e[1] = c})

\* C1: when charge_pending runs again and again with nothing else in between,
\* the gateway accepts at most one charge per campaign, and a run never
\* reaches charge_transaction for a campaign whose transaction is charged.
C1_ChargedAtMostOnce ==
    /\ \A c \in Campaigns : EventsOf(charge_acks, c) <= 1
    /\ pc[1] = "charge" => bid_status[cur[1]] # "charged"

\* Two runs are over, the first charged a campaign and the second asked the
\* gateway nothing about it.
C1_Witness ==
    /\ runs[1] = 2
    /\ \E c \in Campaigns :
          /\ <<c, 1, 0>> \in charge_acks
          /\ is_accepted(camp[c].link_id)
          /\ EventsOf(charge_reqs, c) = 1

\* C2: with two overlapping charge_pending invocations the gateway receives
\* at most one charge request per campaign.
C2_OneChargeRequest ==
    \A c \in Campaigns : EventsOf(charge_reqs, c) <= 1


\* ------------------------------------------------------------------ billing
\* Decimal.quantize(Decimal('.01'), rounding=ROUND_DOWN): towards zero.
RoundDownCent(x) ==
    IF x >= 0 THEN (x \div Cent) * Cent ELSE -(((-x) \div Cent) * Cent)

\* Decimal.quantize(Decimal('.01'), rounding=ROUND_UP): away from zero.
RoundUpCent(x) ==
    IF x >= 0 THEN ((x + Cent - 1) \div Cent) * Cent
    ELSE -((((-x) + Cent - 1) \div Cent) * Cent)

\* The start of the campaign's run; a campaign that is not charged has no run
\* and the last month is taken instead, which starts before every modelled day.
get_total_run_start(c) ==
    IF charged_or_not_needed(c) THEN camp[c].start_date ELSE Today - 30

\* The impressions delivered from the start of the run to now.
get_billable_impressions(c) ==
    IF get_total_run_start(c) > Today THEN 0 ELSE impressions[c]

\* Mutant: the value delivered is not capped at the bid.
get_billable_amount_uncapped(c, imps) ==
    IF camp[c].has_cpm THEN RoundDownCent((imps * camp[c].cpm) \div 100)
    ELSE camp[c].bid

\* impressions / 1000. * camp.cpm / 100. dollars are impressions * cpm / 100
\* mills; rounding the mills down first does not change the whole cents.
get_billable_amount(c, imps) ==
    LET value_delivered == (imps * camp[c].cpm) \div 100
        billable_amount == IF camp[c].has_cpm
                           THEN Min(camp[c].bid, value_delivered)
                           ELSE camp[c].bid
    IN RoundDownCent(billable_amount)

\* Mutant: every campaign is handled again, finalized or not.
is_finalized_never(ra, c) == FALSE

\* hasattr(camp, 'refund_amount')
is_finalized(ra, c) == ra[c] # NoRefund

\* Mutant: freebies are queried too.
completed_campaigns_with_freebies(daysago) ==
    {c \in Campaigns :
        /\ camp[c].exists
        /\ camp[c].end_date = Today - daysago
        /\ trans_id[c] # 0}

\* Mutant: only campaigns whose transaction was charged are queried.
completed_campaigns_charged(daysago) ==
    {c \in Campaigns :
        /\ camp[c].exists
        /\ camp[c].end_date = Today - daysago
        /\ trans_id[c] > 0
        /\ bid_status[c] = "charged"}

\* The campaigns finalize_completed_campaigns(daysago) queries: they end on
\* that day and have a real transaction (no transaction and freebies are out).
completed_campaigns(daysago) ==
    {c \in Campaigns :
        /\ camp[c].exists
        /\ camp[c].end_date = Today - daysago
        /\ trans_id[c] > 0}

\* traffic.get_missing_traffic(start, date) for the run of the campaign that
\* starts first.
get_missing_traffic(daysago) ==
    LET cs == completed_campaigns(daysago)
        earliest_campaign ==
            CHOOSE c \in cs : \A d \in cs :
                \/ camp[c].start_date < camp[d].start_date
                \/ camp[c].start_date = camp[d].start_date /\ c <= d
        start == get_total_run_start(earliest_campaign)
    IN {d \in missing_traffic : start <= d /\ d <= Today - daysago}

RECURSIVE finalize_loop(_, _)
\* The loop over the completed campaigns cs (a sequence); st holds what the
\* loop changes: the refund amounts, the log, the local list of underdelivered
\* campaigns, the stored underdelivered set and the calls that stored it.
finalize_loop(cs, st) ==
    IF cs = <<>> THEN st
    ELSE
      LET c == Head(cs)
          l == camp[c].link_id
          billable_impressions == get_billable_impressions(c)
          billable_amount == get_billable_amount(c, billable_impressions)
          st1 == IF billable_amount >= camp[c].bid
                 THEN [st EXCEPT !.log[l] = Append(@, <<"completed", c>>),
                                 !.refund_amount[c] = 0]
                 ELSE [st EXCEPT !.local = @ \cup {c}]
          st2 == IF st1.local # {}
                 THEN [st1 EXCEPT
                         !.underdelivered = @ \cup st1.local,
                         !.marks = [d \in Campaigns |->
                                      IF d \in st1.local THEN @[d] + 1 ELSE @[d]]]
                 ELSE st1
      IN IF is_finalized(st.refund_amount, c)
         THEN finalize_loop(Tail(cs), st)
         ELSE finalize_loop(Tail(cs), st2)

\* Mutant: the traffic is checked after the loop over the campaigns.
finalize_completed_campaigns_late_check(daysago) ==
    LET cs == completed_campaigns(daysago)
        st0 == [refund_amount |-> refund_amount, log |-> log, local |-> {},
                underdelivered |-> underdelivered, marks |-> marks]
    IN IF cs = {} THEN [raised |-> FALSE, st |-> st0]
       ELSE [raised |-> get_missing_traffic(daysago) # {},
             st |-> finalize_loop(SortedSeq(cs), st0)]

\* What finalize_completed_campaigns(daysago) does to the state: it raises
\* ValueError before the loop when traffic is missing.
finalize_completed_campaigns(daysago) ==
    LET cs == completed_campaigns(daysago)
        st0 == [refund_amount |-> refund_amount, log |-> log, local |-> {},
                underdelivered |-> underdelivered, marks |-> marks]
    IN IF cs = {} THEN [raised |-> FALSE, st |-> st0]
       ELSE IF get_missing_traffic(daysago) # {}
       THEN [raised |-> TRUE, st |-> st0]
       ELSE [raised |-> FALSE, st |-> finalize_loop(SortedSeq(cs), st0)]

\* A call of finalize_completed_campaigns on its own.
Finalize(daysago) ==
    /\ clock < MaxRuns
    /\ clock' = clock + 1
    /\ \E r \in {finalize_completed_campaigns(daysago)} :
          /\ refund_amount' = r.st.refund_amount
          /\ log' = r.st.log
          /\ underdelivered' = r.st.underdelivered
          /\ marks' = r.st.marks
          /\ finalized' = IF r.raised THEN finalized
                          ELSE [finalized EXCEPT ![daysago] = @ + 1]
    /\ UNCHANGED <<callVars, campVars, chargeVars, gatewayCounters, promote_status,
                   bid_status, live, health, last, over_18, queue>>

\* Mutant: a negative amount is not raised to 0.
get_refund_amount_unclamped(c, billable) ==
    RoundUpCent(camp[c].bid
                - (IF refund_amount[c] = NoRefund THEN 0 ELSE refund_amount[c])
                - billable)

get_refund_amount(c, billable) ==
    LET existing_refund == IF refund_amount[c] = NoRefund THEN 0
                           ELSE refund_amount[c]
        charge == camp[c].bid - existing_refund
        amount == charge - billable
    IN Max(RoundUpCent(amount), 0)

\* What authorize.refund_transaction can answer: True only for a transaction
\* that was charged, False, or a gateway fault (AuthorizeNetException).
RefundOutcomes(c) ==
    IF trans_id[c] > 0 /\ bid_status[c] = "charged"
    THEN {"ok", "declined", "fault"}
    ELSE {"declined", "fault"}

\* refund_campaign(link, camp, billable_amount, billable_impressions). The
\* answer of the gateway is not looked at; the log text reads camp.cpm, which
\* raises for a campaign without that attribute, after the gateway was asked.
refund_campaign(c, billable, res) ==
    LET amount == get_refund_amount(c, billable)
        l == camp[c].link_id
    IN IF amount <= 0
       THEN UNCHANGED <<refund_reqs, refunded, log, refund_amount, underdelivered>>
       ELSE /\ refund_reqs' = refund_reqs + 1
            /\ refunded' = IF res = "ok"
                           THEN [refunded EXCEPT ![c] = @ + amount]
                           ELSE refunded
            /\ IF res = "fault"
               THEN /\ log' = [log EXCEPT ![l] = Append(@, <<"refund failed", c>>)]
                    /\ UNCHANGED <<refund_amount, underdelivered>>
               ELSE IF ~camp[c].has_cpm
               THEN UNCHANGED <<log, refund_amount, underdelivered>>
               ELSE /\ log' = [log EXCEPT ![l] = Append(@, <<"refunded", c>>)]
                    /\ refund_amount' = [refund_amount EXCEPT ![c] = amount]
                    /\ underdelivered' = underdelivered \ {c}

\* The billable amounts refund_campaign is called with: from nothing to the
\* whole bid, in half cents.
BillableChoices(c) == {b \in 0..camp[c].bid : b % (Cent \div 2) = 0}

RefundCampaign(c, billable) ==
    /\ clock < MaxRuns
    /\ clock' = clock + 1
    /\ camp[c].exists
    /\ \E res \in RefundOutcomes(c) : refund_campaign(c, billable, res)
    /\ UNCHANGED <<callVars, campVars, chargeVars, charge_reqs, charge_acks, marks,
                   finalized, promote_status, bid_status, live, health, last,
                   over_18, queue>>

\* A campaign that ran on the global audience and is over.
Ended(has_cpm, tid, bstat, start, end, imps) ==
    [exists |-> TRUE, sr_name |-> "", priority_cpm |-> TRUE,
     has_cpm |-> has_cpm, trans_id |-> tid, bid_status |-> bstat,
     start_date |-> start, end_date |-> end, impressions |-> imps]

\* Campaigns that ended yesterday: underdelivered, delivered in full (and
\* more), pre-CPM, a freebie, never authorized, authorized but never charged;
\* and an underdelivered one that ended the day before.
FinalizeProfiles ==
    <<Ended(TRUE, 1, "charged", Today - 1, Today - 1, 3),
      Ended(TRUE, 1, "charged", Today - 2, Today - 1, 2 * MaxBidCents + 1),
      Ended(FALSE, 1, "charged", Today - 1, Today - 1, 0),
      Ended(TRUE, -1, "charged", Today - 1, Today - 1, 3),
      Ended(TRUE, 0, "none", Today - 1, Today - 1, 0),
      Ended(TRUE, 1, "auth", Today - 1, Today - 1, 0),
      Ended(TRUE, 1, "charged", Today - 2, Today - 2, 1)>>

InitFinalize ==
    /\ \E la \in LinkAssignments :
          \E pf \in ProfileChoices(Len(FinalizeProfiles)) :
             InitCampaigns(FinalizeProfiles, la, pf)
    /\ promote_status = [l \in Links |-> PROMOTE_STATUS.finished]
    /\ missing_traffic \in {{}, {Today - 2}, {Today - 1}}
    /\ InitRest

\* finalize_completed_campaigns and refund_campaign called in any order.
NextFinalize ==
    \/ \E daysago \in DaysAgo : Finalize(daysago)
    \/ \E c \in Campaigns : \E billable \in BillableChoices(c) :
          RefundCampaign(c, billable)

SpecFinalize == InitFinalize /\ [][NextFinalize]_vars


\* C3: a second finalize_completed_campaigns pass for a day, the first having
\* run to its end, is a no-op: it changes no refund amount, adds no audit
\* entry, requests no refund and marks no campaign underdelivered again.
C3_SecondFinalizeNoOp ==
    [][\A d \in DaysAgo :
          (finalized[d] >= 1 /\ finalized'[d] = finalized[d] + 1) =>
             /\ refund_amount' = refund_amount
             /\ log' = log
             /\ refund_reqs' = refund_reqs
             /\ marks' = marks]_vars

\* C3 as amended: the second pass changes no refund amount, adds no audit
\* entry, requests no refund and leaves the stored set of underdelivered
\* campaigns as it was (it does store the campaigns that are still
\* underdelivered once more).
C3_SecondFinalizeKeepsState ==
    [][\A d \in DaysAgo :
          (finalized[d] >= 1 /\ finalized'[d] = finalized[d] + 1) =>
             /\ refund_amount' = refund_amount
             /\ log' = log
             /\ refund_reqs' = refund_reqs
             /\ underdelivered' = underdelivered]_vars

\* A day was finalized twice; one of its campaigns was delivered in full and
\* another is stored as underdelivered.
C3_Witness ==
    \E d \in DaysAgo :
        /\ finalized[d] >= 2
        /\ \E c \in completed_campaigns(d) : refund_amount[c] = 0
        /\ \E c \in completed_campaigns(d) :
              c \in underdelivered /\ refund_amount[c] = NoRefund

\* C4: a refund amount that is set never changes again and never exceeds
\* the bid.
C4_RefundAmountImmutable ==
    [][\A c \in Campaigns :
          refund_amount[c] # NoRefund =>
             /\ refund_amount'[c] = refund_amount[c]
             /\ refund_amount[c] <= camp[c].bid]_vars


\* ------------------------------------------------------- daily promotions
\* Mutant: the first record that raises ends the pass over the records.
get_scheduled_aborting(offset, raising) ==
    LET yielded == accepted_campaigns(offset)
        bad == {pw.promo_idx : pw \in yielded} \cap raising
    IN [adweights |->
           {[link |-> camp[pw.promo_idx].link_id, weight |-> pw.weight,
             campaign |-> pw.promo_idx] :
               pw \in {x \in yielded :
                         /\ \A b \in bad : x.promo_idx < b
                         /\ charged_or_not_needed(x.promo_idx)}},
        error_campaigns |-> bad]

\* get_scheduled(offset): the AdWeights of the records accepted_campaigns
\* yields whose campaign is charged or needs no charge, and the campaigns for
\* which charged_or_not_needed raised (raising: those for which it raises).
get_scheduled(offset, raising) ==
    LET yielded == accepted_campaigns(offset)
    IN [adweights |->
           {[link |-> camp[pw.promo_idx].link_id, weight |-> pw.weight,
             campaign |-> pw.promo_idx] :
               pw \in {x \in yielded :
                         /\ x.promo_idx \notin raising
                         /\ charged_or_not_needed(x.promo_idx)}},
        error_campaigns |-> {pw.promo_idx : pw \in yielded} \cap raising]

\* Subreddit._by_name(names): the subreddits that exist under these names;
\* the empty name, which targets all subreddits, names none.
Subreddit_by_name(names) == names \ {""}

\* LiveAdWeights.set_all_from_weights(all_weights): the keys given are
\* written, ALL_ADS holds every ad given, and no other key is touched.
set_all_from_weights(all_weights) ==
    [k \in DOMAIN live \cup DOMAIN all_weights \cup {ALL_ADS} |->
        IF k = ALL_ADS THEN UNION {all_weights[j] : j \in DOMAIN all_weights}
        ELSE IF k \in DOMAIN all_weights THEN all_weights[k]
        ELSE live[k]]

\* The dictionary set_live_promotions hands to the store: an empty list for
\* every subreddit with a weight record between yesterday and tomorrow, the
\* given weights on top, and the global audience under FRONT_PAGE.
live_all_weights(weights) ==
    LET window == {pw \in promo_weights :
                     Today - 1 <= pw.date /\ pw.date <= Today + 1}
        subreddit_names == {pw.sr_name : pw \in window}
        subreddits == Subreddit_by_name(subreddit_names)
        merged == [k \in subreddits \cup DOMAIN weights |->
                     IF k \in DOMAIN weights THEN weights[k] ELSE {}]
    IN [k \in {IF a = "" THEN FRONT_PAGE ELSE a : a \in DOMAIN merged} |->
          IF k = FRONT_PAGE THEN merged[""] ELSE merged[k]]

\* Mutant: the defaults are stored by a call of their own, before the weights.
store_calls_defaults_first(weights) ==
    <<[k \in Subreddit_by_name({pw.sr_name : pw \in promo_weights}) |-> {}],
      live_all_weights(weights)>>

\* The calls of LiveAdWeights.set_all_from_weights that set_live_promotions
\* makes: one, with the whole dictionary.
store_calls(weights) == <<live_all_weights(weights)>>

\* set_live_promotions(weights): the store after the call.
set_live_promotions(weights) ==
    set_all_from_weights(store_calls(weights)[1])

\* Mutant: the timestamp is written by a test pass too.
mark_promos_updated_always(test, now) == now

\* if not test: ... _mark_promos_updated(): the timestamp after the publishing
\* step of a pass that runs at time now.
mark_promos_updated(test, now) == IF test THEN health ELSE now

\* Mutant: the collected errors are not reported.
pass_outcome_silent(error_campaigns, finalize_raised) ==
    IF finalize_raised THEN "value_error" ELSE "ok"

\* How make_daily_promotions ends: finalize_completed_campaigns raises
\* ValueError, or the collected errors are raised as one Exception, or it
\* returns.
pass_outcome(error_campaigns, finalize_raised) ==
    IF finalize_raised THEN "value_error"
    ELSE IF error_campaigns # {} THEN "batch_error"
    ELSE "ok"

\* make_daily_promotions(offset=0, test): what the pass computes and stores.
make_daily_promotions(test, raising) ==
    LET sched == get_scheduled(0, raising)
        scheduled_adweights == sched.adweights
        current_adweights == live[ALL_ADS]
        expired_links == {aw.link : aw \in current_adweights}
                           \ {aw.link : aw \in scheduled_adweights}
        audiences == {camp[aw.campaign].sr_name : aw \in scheduled_adweights}
        by_srid == [a \in audiences |->
                      {aw \in scheduled_adweights :
                          camp[aw.campaign].sr_name = a}]
        over18_links == {aw.link : aw \in {x \in scheduled_adweights :
                            camp[x.campaign].sr_name \in Over18Srs}}
        new_status ==
            [l \in Links |->
               IF l \in expired_links /\ is_promoted(l)
               THEN PROMOTE_STATUS.finished
               ELSE IF /\ l \in {aw.link : aw \in scheduled_adweights}
                       /\ is_accepted(l) /\ ~is_promoted(l)
               THEN PROMOTE_STATUS.promoted
               ELSE promote_status[l]]
        fin == finalize_completed_campaigns(1)
    IN [promote_status |-> IF test THEN promote_status ELSE new_status,
        over_18 |-> IF test THEN over_18
                    ELSE [l \in Links |-> over_18[l] \/ l \in over18_links],
        live |-> IF test THEN live ELSE set_live_promotions(by_srid),
        health |-> mark_promos_updated(test, clock + 1),
        fin |-> fin,
        last |-> [outcome |-> pass_outcome(sched.error_campaigns, fin.raised),
                  errors |-> sched.error_campaigns,
                  scheduled |-> scheduled_adweights,
                  weights |-> by_srid,
                  published |-> ~test,
                  test |-> test]]

MakeDaily(test, raising) ==
    /\ clock < MaxRuns
    /\ clock' = clock + 1
    /\ \E r \in {make_daily_promotions(test, raising)} :
          /\ promote_status' = r.promote_status
          /\ over_18' = r.over_18
          /\ live' = r.live
          /\ health' = r.health
          /\ last' = r.last
          /\ refund_amount' = r.fin.st.refund_amount
          /\ log' = r.fin.st.log
          /\ underdelivered' = r.fin.st.underdelivered
          /\ marks' = r.fin.st.marks
          /\ finalized' = IF r.fin.raised THEN finalized
                          ELSE [finalized EXCEPT ![1] = @ + 1]
    /\ UNCHANGED <<callVars, campVars, chargeVars, gatewayCounters, bid_status, queue>>

\* reject_promotion(link): the status is set first; a link with live ads gets
\* a log entry and a LINK_CHANGED message.
RejectPromotion(l) ==
    /\ promote_status[l] # PROMOTE_STATUS.rejected
    /\ \E c \in Campaigns : camp[c].link_id = l
    /\ promote_status' = [promote_status EXCEPT ![l] = PROMOTE_STATUS.rejected]
    /\ IF l \in {aw.link : aw \in live[ALL_ADS]}
       THEN /\ log' = [log EXCEPT ![l] = Append(@, <<"terminating", 0>>)]
            /\ queue' = Append(queue, [link |-> l, message |-> "rejected"])
       ELSE UNCHANGED <<log, queue>>
    /\ UNCHANGED <<callVars, campVars, chargeVars, gatewayCounters, billingVars,
                   bid_status, live, health, clock, last, over_18>>

\* A campaign on audience sr with the given billing state and run.
Scheduled(exists, sr, priority_cpm, tid, bstat, start, end, imps) ==
    [exists |-> exists, sr_name |-> sr, priority_cpm |-> priority_cpm,
     has_cpm |-> TRUE, trans_id |-> tid, bid_status |-> bstat,
     start_date |-> start, end_date |-> end, impressions |-> imps]

\* Campaigns of today's schedule: charged ones on the global audience, on a
\* subreddit and on an over-18 subreddit; one that is authorized only, one
\* whose transaction was voided, a flat-priced one, a cpm one without a
\* transaction, and a deleted one whose weight records are still stored.
ScheduleProfiles ==
    <<Scheduled(TRUE, "", TRUE, 1, "charged", Today, Today + 1, 0),
      Scheduled(TRUE, "sra", TRUE, 1, "charged", Today, Today + 1, 0),
      Scheduled(TRUE, "srb", TRUE, 1, "charged", Today - 1, Today, 0),
      Scheduled(TRUE, "sra", TRUE, 1, "auth", Today, Today + 1, 0),
      Scheduled(TRUE, "", TRUE, 1, "void", Today, Today + 1, 0),
      Scheduled(TRUE, "sra", FALSE, 0, "none", Today, Today + 1, 0),
      Scheduled(TRUE, "", TRUE, 0, "none", Today, Today + 1, 0),
      Scheduled(FALSE, "sra", TRUE, 1, "charged", Today, Today + 1, 0)>>

\* Links not yet approved, approved and rejected; a pass promotes them.
InitSchedule ==
    /\ \E la \in LinkAssignments :
          /\ \E pf \in ProfileChoices(Len(ScheduleProfiles)) :
                InitCampaigns(ScheduleProfiles, la, pf)
          /\ promote_status \in StatusChoices(la,
                {PROMOTE_STATUS.unseen, PROMOTE_STATUS.accepted,
                 PROMOTE_STATUS.rejected})
    /\ missing_traffic = {}
    /\ InitRest

\* make_daily_promotions passes, with links rejected in between.
Next ==
    \/ \E test \in BOOLEAN :
          \E raising \in SUBSET {pw.promo_idx : pw \in get_campaigns(Today)} :
             MakeDaily(test, raising)
    \/ \E l \in Links : RejectPromotion(l)

Spec == InitSchedule /\ [][Next]_vars

\* Campaigns of a pass that also has campaigns to finalize: a charged and a
\* flat-priced one that run today, and two that ended yesterday, one
\* underdelivered and one delivered in full.
PassProfiles ==
    <<Scheduled(TRUE, "", TRUE, 1, "charged", Today, Today + 1, 0),
      Scheduled(TRUE, "sra", FALSE, 0, "none", Today, Today + 1, 0),
      Scheduled(TRUE, "sra", TRUE, 1, "charged", Today - 2, Today - 1, 3),
      Scheduled(TRUE, "", TRUE, 1, "charged", Today - 1, Today - 1,
                2 * MaxBidCents)>>

InitPass ==
    /\ \E la \in LinkAssignments :
          /\ \E pf \in ProfileChoices(Len(PassProfiles)) :
                InitCampaigns(PassProfiles, la, pf)
          /\ promote_status \in StatusChoices(la,
                {PROMOTE_STATUS.unseen, PROMOTE_STATUS.accepted})
    /\ missing_traffic \in {{}, {Today - 1}}
    /\ InitRest

\* make_daily_promotions passes, one after the other, with test on and off.
NextPass ==
    \E test \in BOOLEAN :
       \E raising \in SUBSET {pw.promo_idx : pw \in get_campaigns(Today)} :
          MakeDaily(test, raising)

SpecPass == InitPass /\ [][NextPass]_vars


\* ------------------------------------------------- claims on the schedule
\* C5: every entry get_scheduled returns, and every entry the pass publishes,
\* belongs to a campaign that at the time of the check is flat-priced or has a
\* transaction the gateway reports as charged.
C5_ScheduledChargedOrFlat ==
    [][clock' # clock =>
         /\ \A aw \in last'.scheduled :
               \/ ~camp[aw.campaign].priority_cpm
               \/ /\ trans_id[aw.campaign] # 0
                  /\ bid_status[aw.campaign] = "charged"
         /\ last'.published =>
               /\ live'[ALL_ADS] \subseteq last'.scheduled
               /\ \A a \in DOMAIN last'.weights :
                     live'[IF a = "" THEN FRONT_PAGE ELSE a]
                        \subseteq last'.scheduled]_vars

\* A published pass put a charged cpm campaign live and left out a cpm
\* campaign of an accepted link whose transaction is authorized or voided.
C5_Witness ==
    /\ last.published
    /\ \E aw \in live[ALL_ADS] : camp[aw.campaign].priority_cpm
    /\ \E pw \in get_campaigns(Today) :
          /\ camp[pw.promo_idx].exists
          /\ camp[pw.promo_idx].priority_cpm
          /\ trans_id[pw.promo_idx] # 0
          /\ bid_status[pw.promo_idx] \in {"auth", "void"}
          /\ is_accepted(camp[pw.promo_idx].link_id)
          /\ pw.promo_idx \notin {aw.campaign : aw \in live[ALL_ADS]}

\* C6: a weight record of the day whose campaign no longer exists, or is cpm
\* with transaction id 0, or whose link is rejected or below accepted, is in
\* neither the output nor the error list of get_scheduled.
C6_SkippedSilently ==
    [][clock' # clock =>
         \A pw \in get_campaigns(Today) :
            (\/ ~camp[pw.promo_idx].exists
             \/ camp[pw.promo_idx].priority_cpm /\ trans_id[pw.promo_idx] = 0
             \/ promote_status[pw.thing_name] = PROMOTE_STATUS.rejected
             \/ promote_status[pw.thing_name] < PROMOTE_STATUS.accepted)
            => /\ pw.promo_idx \notin {aw.campaign : aw \in last'.scheduled}
               /\ pw.thing_name \notin
                     {aw.link : aw \in {x \in last'.scheduled :
                                           x.campaign = pw.promo_idx}}
               /\ pw.promo_idx \notin last'.errors]_vars

\* A pass scheduled one campaign and left out, without an error, a charged
\* campaign whose link is rejected and whose weight record is still stored.
C6_Witness ==
    /\ last.outcome = "ok"
    /\ last.scheduled # {}
    /\ \E pw \in get_campaigns(Today) :
          /\ camp[pw.promo_idx].exists
          /\ is_charged_transaction(pw.promo_idx)
          /\ promote_status[pw.thing_name] = PROMOTE_STATUS.rejected
          /\ pw.thing_name \notin {aw.link : aw \in live[ALL_ADS]}
          /\ pw.promo_idx \notin {aw.campaign : aw \in last.scheduled}

C10_AbsentAudiencesEmptied ==
    last.published =>
       \A a \in {pw.sr_name : pw \in {x \in promo_weights :
                    Today - 1 <= x.date /\ x.date <= Today + 1}} :
          /\ (IF a = "" THEN FRONT_PAGE ELSE a) \in DOMAIN live
          /\ live[IF a = "" THEN FRONT_PAGE ELSE a] =
                IF a \in DOMAIN last.weights THEN last.weights[a] ELSE {}

C9_HealthOnlyOnSuccess ==
    [][health' # health => last'.outcome = "ok"]_vars

\* C9: the timestamp is written by every pass with test off, right after it
\* published and whatever its end, and by nothing else.
C9_HealthOnPublish ==
    [][/\ health' # health => clock' # clock
       /\ clock' # clock =>
             health' = IF last'.test THEN health ELSE clock']_vars

\* A pass with test off ended with an exception and wrote the timestamp.
C9_Witness ==
    /\ last.outcome \in {"batch_error", "value_error"}
    /\ ~last.test
    /\ health = clock

\* ------------------------------------------------ readers of the live set
\* The keys one call of LiveAdWeights.set_all_from_weights writes, and the
\* list it writes under each: a key is written as a whole.
store_keys(all_weights) == DOMAIN all_weights \cup {ALL_ADS}

store_value(all_weights, k) ==
    IF k = ALL_ADS THEN UNION {all_weights[j] : j \in DOMAIN all_weights}
    ELSE all_weights[k]

\* LiveAdWeights.get([k]): the list stored under k, empty when there is none.
live_get(store, k) == IF k \in DOMAIN store THEN store[k] ELSE {}

\* by_srid of make_daily_promotions for the scheduled campaigns S.
by_srid_of(S) ==
    [a \in {camp[c].sr_name : c \in S} |->
        {[link |-> camp[c].link_id, weight |-> FullBid, campaign |-> c] :
            c \in {d \in S : camp[d].sr_name = a}}]

\* set_live_promotions(by_srid) is entered: the dictionary is built, nothing
\* is written yet.
PublishStart(S) ==
    /\ pub.calls = <<>>
    /\ clock < MaxRuns
    /\ pub' = [calls |-> store_calls(by_srid_of(S)), written |-> {},
               old |-> live]
    /\ UNCHANGED <<campVars, chargeVars, gatewayCounters, billingVars,
                   publishVars, promote_status, bid_status, log, result>>

\* The store writes one more key of the call in progress; with the last key
\* of the last call set_live_promotions returns.
StoreWrite(k) ==
    /\ pub.calls # <<>>
    /\ k \in store_keys(Head(pub.calls)) \ pub.written
    /\ live' = [j \in DOMAIN live \cup {k} |->
                  IF j = k THEN store_value(Head(pub.calls), k) ELSE live[j]]
    /\ IF pub.written \cup {k} = store_keys(Head(pub.calls))
       THEN /\ pub' = [pub EXCEPT !.calls = Tail(@), !.written = {}]
            /\ clock' = IF Len(pub.calls) = 1 THEN clock + 1 ELSE clock
       ELSE /\ pub' = [pub EXCEPT !.written = @ \cup {k}]
            /\ clock' = clock
    /\ UNCHANGED <<campVars, chargeVars, gatewayCounters, billingVars,
                   promote_status, bid_status, log, result, health, last,
                   over_18, queue>>

\* get_live_promotions([k]) by a reader, at any moment.
GetLivePromotions(k) ==
    /\ result' = [op |-> "get_live_promotions", key |-> k,
                  value |-> live_get(live, k), at |-> clock,
                  during |-> pub.calls # <<>>]
    /\ UNCHANGED <<campVars, chargeVars, gatewayCounters, billingVars,
                   publishVars, promote_status, bid_status, log, pub>>

\* Charged campaigns on the global audience and on two subreddits.
PublishProfiles == SubSeq(ScheduleProfiles, 1, 3)

InitPublish ==
    /\ \E la \in LinkAssignments :
          /\ \E pf \in ProfileChoices(Len(PublishProfiles)) :
                InitCampaigns(PublishProfiles, la, pf)
          /\ promote_status \in StatusChoices(la, {PROMOTE_STATUS.promoted})
    /\ missing_traffic = {}
    /\ InitRest

\* set_live_promotions called with one schedule after the other, its store
\* writes interleaved with readers.
NextPublish ==
    \/ \E S \in SUBSET Campaigns : PublishStart(S)
    \/ \E k \in (SrNames \ {""}) \cup {FRONT_PAGE, ALL_ADS} : StoreWrite(k)
    \/ \E k \in (SrNames \ {""}) \cup {FRONT_PAGE, ALL_ADS} :
          GetLivePromotions(k)

SpecPublish == InitPublish /\ [][NextPublish]_vars

AuthAnswers == {"authorized", "freebie", "declined", "id_and_reason", "fault"}

\* A transaction id the gateway has not given to the campaign before.
NewTransId(c) == IF trans_id[c] = 1 THEN 2 ELSE 1

auth_trans_id(c, answer) ==
    CASE answer = "authorized" -> NewTransId(c)
      [] answer = "freebie" -> -1
      [] answer = "declined" -> 0
      [] answer = "id_and_reason" -> NewTransId(c)

auth_reason(answer) ==
    IF answer \in {"declined", "id_and_reason"} THEN "declined" ELSE ""

\* Mutant: a transaction id counts as success whatever the reason.
auth_succeeded_by_id(tid, reason) == tid # 0

\* if trans_id and not reason
auth_succeeded(tid, reason) == tid # 0 /\ reason = ""

\* Mutant: the link is set to unseen whatever its status.
auth_new_status_unseen(tid, status) == PROMOTE_STATUS.unseen

\* new_status of auth_campaign
auth_new_status(tid, status) ==
    IF tid # 0 THEN Max(PROMOTE_STATUS.unseen, status)
    ELSE Max(PROMOTE_STATUS.unpaid, status)

\* void_campaign(link, campaign): the calls it makes to the gateway; a
\* campaign with transaction id 0 has no bid record to void.
void_campaign(c) ==
    IF trans_id[c] # 0 THEN <<<<"void_transaction", trans_id[c]>>>> ELSE <<>>

\* auth_campaign(link, campaign, user, pay_id) with the gateway's answer.
AuthCampaign(c, answer) ==
    LET l == camp[c].link_id
        voids == void_campaign(c)
        voided == IF voids # <<>> THEN "void" ELSE bid_status[c]
        calls == voids \o <<<<"auth_transaction", 0>>>>
    IN
    /\ clock < MaxRuns
    /\ clock' = clock + 1
    /\ camp[c].exists
    /\ IF answer = "fault"
       THEN /\ bid_status' = [bid_status EXCEPT ![c] = voided]
            /\ result' = [op |-> "auth_campaign", campaign |-> c,
                          answer |-> answer, calls |-> calls, raised |-> TRUE,
                          ret |-> FALSE, reason |-> "", at |-> clock + 1,
                          status |-> promote_status[l]]
            /\ UNCHANGED <<trans_id, log, promote_status>>
       ELSE
         LET tid == auth_trans_id(c, answer)
             reason == auth_reason(answer)
         IN IF auth_succeeded(tid, reason)
            THEN /\ log' = [log EXCEPT ![l] =
                              IF tid < 0
                              THEN @ \o <<<<"auth success", c>>,
                                          <<"freebie", c>>>>
                              ELSE Append(@, <<"auth success", c>>)]
                 /\ promote_status' =
                       [promote_status EXCEPT ![l] = auth_new_status(tid, @)]
                 /\ trans_id' = [trans_id EXCEPT ![c] = tid]
                 /\ bid_status' = [bid_status EXCEPT ![c] = "auth"]
                 /\ result' = [op |-> "auth_campaign", campaign |-> c,
                               answer |-> answer, calls |-> calls,
                               raised |-> FALSE, ret |-> tid # 0,
                               reason |-> reason, at |-> clock + 1,
                               status |-> promote_status[l]]
            ELSE /\ log' = [log EXCEPT ![l] = Append(@, <<"auth failed", c>>)]
                 /\ trans_id' = [trans_id EXCEPT ![c] = 0]
                 /\ bid_status' = [bid_status EXCEPT ![c] =
                                     IF tid # 0 THEN "auth" ELSE voided]
                 /\ result' = [op |-> "auth_campaign", campaign |-> c,
                               answer |-> answer, calls |-> calls,
                               raised |-> FALSE, ret |-> FALSE,
                               reason |-> reason, at |-> clock + 1,
                               status |-> promote_status[l]]
                 /\ UNCHANGED promote_status
    /\ UNCHANGED <<camp, promo_weights, impressions, missing_traffic,
                   chargeVars, gatewayCounters, billingVars, live, health,
                   last, over_18, queue, pub>>

\* Campaigns without a transaction, authorized, charged, and a freebie.
AuthProfiles ==
    <<Running(TRUE, 0, "none"), Running(TRUE, 1, "auth"),
      Running(TRUE, 1, "charged"), Running(TRUE, -1, "auth")>>

InitAuth ==
    /\ \E la \in LinkAssignments :
          /\ \E pf \in ProfileChoices(Len(AuthProfiles)) :
                InitCampaigns(AuthProfiles, la, pf)
          /\ promote_status \in StatusChoices(la,
                {PROMOTE_STATUS.unpaid, PROMOTE_STATUS.accepted,
                 PROMOTE_STATUS.rejected, PROMOTE_STATUS.finished})
    /\ missing_traffic = {}
    /\ InitRest

\* auth_campaign called again and again, for any campaign.
NextAuth == \E c \in Campaigns : \E answer \in AuthAnswers :
               AuthCampaign(c, answer)

SpecAuth == InitAuth /\ [][NextAuth]_vars

\* C12: a successful auth_campaign voids the prior transaction before it asks
\* for the new one, records the id the gateway gave and sets the link to the
\* higher of unseen and its status; no auth_campaign call lowers a status.
C12_AuthVoidsRecordsRaises ==
    [][clock' # clock =>
         /\ \A l \in Links : promote_status'[l] >= promote_status[l]
         /\ result'.answer \in {"authorized", "freebie"} =>
               LET c == result'.campaign
               IN /\ result'.ret /\ ~result'.raised /\ result'.reason = ""
                  /\ result'.calls =
                        IF trans_id[c] # 0
                        THEN <<<<"void_transaction", trans_id[c]>>,
                               <<"auth_transaction", 0>>>>
                        ELSE <<<<"auth_transaction", 0>>>>
                  /\ trans_id'[c] # trans_id[c] \/ trans_id'[c] = -1
                  /\ trans_id'[c] > 0 \/ trans_id'[c] = -1
                  /\ result'.answer = "freebie" <=> trans_id'[c] = -1
                  /\ promote_status'[camp[c].link_id] =
                        IF promote_status[camp[c].link_id]
                              > PROMOTE_STATUS.unseen
                        THEN promote_status[camp[c].link_id]
                        ELSE PROMOTE_STATUS.unseen]_vars

\* A campaign with a transaction on a finished link was authorized again: the
\* old transaction was voided first and the link is still finished.
C12_Witness ==
    /\ result.op = "auth_campaign"
    /\ result.ret
    /\ Len(result.calls) = 2
    /\ trans_id[result.campaign] = 2
    /\ promote_status[camp[result.campaign].link_id] = PROMOTE_STATUS.finished

\* C13: when the gateway gives no transaction id, or gives a reason,
\* auth_campaign does not raise: it returns (False, reason), sets the
\* campaign's transaction id to 0, adds a failed-authorization entry and
\* leaves the statuses as they are.
C13_DeclineReturnsFalse ==
    [][clock' # clock /\ result'.answer \in {"declined", "id_and_reason"} =>
         LET c == result'.campaign
         IN /\ ~result'.raised
            /\ ~result'.ret
            /\ result'.reason # ""
            /\ trans_id'[c] = 0
            /\ log'[camp[c].link_id] =
                  Append(log[camp[c].link_id], <<"auth failed", c>>)
            /\ promote_status' = promote_status]_vars

\* The gateway gave an id together with a reason for a campaign that had a
\* transaction: the call returned False and the campaign has none now.
C13_Witness ==
    /\ result.op = "auth_campaign"
    /\ result.answer = "id_and_reason"
    /\ ~result.ret
    /\ Len(result.calls) = 2
    /\ trans_id[result.campaign] = 0

\* ------------------------------------------------- finalize and its traffic
\* A call of finalize_completed_campaigns whose end the caller sees.
FinalizeDay(daysago) ==
    /\ clock < MaxRuns
    /\ clock' = clock + 1
    /\ \E r \in {finalize_completed_campaigns(daysago)} :
          /\ refund_amount' = r.st.refund_amount
          /\ log' = r.st.log
          /\ underdelivered' = r.st.underdelivered
          /\ marks' = r.st.marks
          /\ finalized' = IF r.raised THEN finalized
                          ELSE [finalized EXCEPT ![daysago] = @ + 1]
          /\ result' = [op |-> "finalize_completed_campaigns",
                        daysago |-> daysago, raised |-> r.raised,
                        at |-> clock + 1]
    /\ UNCHANGED <<campVars, chargeVars, gatewayCounters, promote_status,
                   bid_status, live, health, last, over_18, queue, pub>>

\* The traffic data that was missing has been processed.
TrafficLoaded ==
    /\ missing_traffic # {}
    /\ missing_traffic' = {}
    /\ UNCHANGED <<camp, trans_id, promo_weights, impressions, chargeVars,
                   gatewayCounters, billingVars, publishVars, promote_status,
                   bid_status, log, callVars>>

\* finalize_completed_campaigns run for a day before and after its traffic
\* data is complete.
NextGap ==
    \/ \E daysago \in DaysAgo : FinalizeDay(daysago)
    \/ TrafficLoaded

SpecGap == InitFinalize /\ [][NextGap]_vars

\* C14: with traffic data missing in the window finalize checks, the call
\* raises and no refund amount, audit entry or underdelivered mark changes;
\* with the data complete it does not raise and handles every campaign of the
\* day that has no refund amount.
C14_GapAbortsWholeDay ==
    [][clock' # clock =>
         LET d == result'.daysago
             cs == completed_campaigns(d)
             gap == cs # {} /\ get_missing_traffic(d) # {}
         IN /\ result'.raised <=> gap
            /\ gap => /\ refund_amount' = refund_amount
                      /\ log' = log
                      /\ underdelivered' = underdelivered
                      /\ marks' = marks
                      /\ finalized' = finalized
            /\ ~gap => \A c \in cs :
                          refund_amount[c] = NoRefund =>
                             \/ refund_amount'[c] = 0
                             \/ c \in underdelivered' /\ marks'[c] > marks[c]
      ]_vars

\* The first run for yesterday raised for missing traffic, the data arrived,
\* and the second run finalized a campaign.
C14_Witness ==
    /\ clock = 2
    /\ result.op = "finalize_completed_campaigns"
    /\ result.daysago = 1
    /\ ~result.raised
    /\ finalized[1] = 1
    /\ finalized[2] = 0
    /\ missing_traffic = {}
    /\ \E c \in Campaigns : refund_amount[c] = 0
    /\ \E c \in Campaigns : c \in underdelivered

\* ---------------------------------------------------- claims on refunds
\* C15: a refund amount is recorded, and an underdelivered mark removed, only
\* by a refund_campaign call whose refund the gateway reports as successful.
C15_RefundRecordedOnlyOnSuccess ==
    [][\A c \in Campaigns :
          /\ (refund_amount'[c] # refund_amount[c] /\ refund_amount'[c] > 0)
                => refunded'[c] > refunded[c]
          /\ (c \in underdelivered /\ c \notin underdelivered')
                => refunded'[c] > refunded[c]]_vars

\* ------------------------------------------------------ billing arithmetic
\* get_refund_amount(camp, billable) called by itself.
GetRefundAmount(c, billable) ==
    /\ result' = [op |-> "get_refund_amount", campaign |-> c,
                  billable |-> billable,
                  value |-> get_refund_amount(c, billable)]
    /\ UNCHANGED <<campVars, chargeVars, gatewayCounters, billingVars,
                   publishVars, promote_status, bid_status, log, pub>>

\* get_billable_amount(camp, impressions) called by itself.
GetBillableAmount(c, imps) ==
    /\ result' = [op |-> "get_billable_amount", campaign |-> c,
                  impressions |-> imps,
                  value |-> get_billable_amount(c, imps)]
    /\ UNCHANGED <<campVars, chargeVars, gatewayCounters, billingVars,
                   publishVars, promote_status, bid_status, log, pub>>

\* The cpm rates of the campaigns, in cents per thousand impressions.
CpmRates == {250, 500}

\* The impression counts get_billable_amount is called with: by a few more
\* than the highest bid pays for at the highest rate.
ImpressionChoices == 0..(2 * MaxBidCents + 2)

\* The billable amounts get_refund_amount is called with, in half cents, up
\* to a cent above the bid.
RefundBillableChoices(c) ==
    {b \in 0..(camp[c].bid + Cent) : b % (Cent \div 2) = 0}

\* Campaigns of one bid, rate and pricing, which ended yesterday, each with
\* no refund amount or with one of whole cents up to the bid.
InitAmounts ==
    /\ \E b \in 1..MaxBidCents : \E rate \in CpmRates :
          \E has_cpm \in BOOLEAN : \E priority_cpm \in BOOLEAN :
             camp = [c \in Campaigns |->
                       [exists |-> TRUE, link_id |-> 1, sr_name |-> "",
                        priority_cpm |-> priority_cpm, has_cpm |-> has_cpm,
                        cpm |-> rate, bid |-> b * Cent,
                        start_date |-> Today - 1, end_date |-> Today - 1]]
    /\ refund_amount \in [Campaigns -> {NoRefund} \cup
                             {r * Cent : r \in 0..MaxBidCents}]
    /\ \A c \in Campaigns : refund_amount[c] <= camp[c].bid
    /\ trans_id = [c \in Campaigns |-> 1]
    /\ bid_status = [c \in Campaigns |-> "charged"]
    /\ impressions = [c \in Campaigns |-> 0]
    /\ promo_weights = WeightsOf(camp)
    /\ promote_status = [l \in Links |->
                           IF l = 1 THEN PROMOTE_STATUS.finished
                           ELSE PROMOTE_STATUS.unpaid]
    /\ missing_traffic = {}
    /\ InitRest

NextAmounts ==
    \/ \E c \in Campaigns : \E billable \in RefundBillableChoices(c) :
          GetRefundAmount(c, billable)
    \/ \E c \in Campaigns : \E imps \in ImpressionChoices :
          GetBillableAmount(c, imps)

SpecAmounts == InitAmounts /\ [][NextAmounts]_vars

C17_FlatPricedBilledInFull ==
    result.op = "get_billable_amount" =>
       LET c == result.campaign
           v == result.value
       IN IF camp[c].priority_cpm
          THEN /\ v % Cent = 0
               /\ v <= camp[c].bid
               /\ v * 100 <= result.impressions * camp[c].cpm
               /\ \/ v = camp[c].bid
                  \/ (v + Cent) * 100 > result.impressions * camp[c].cpm
          ELSE v = camp[c].bid

\* C17: a campaign that has a cpm rate is billed min(bid, impressions / 1000
\* * rate / 100) rounded down to a whole cent, whatever its pricing, which
\* does not decrease with the impressions and never exceeds the bid; a
\* campaign without a cpm rate is billed exactly its bid.
C17_BilledByRateOrInFull ==
    result.op = "get_billable_amount" =>
       LET c == result.campaign
           v == result.value
       IN IF camp[c].has_cpm
          THEN /\ v % Cent = 0
               /\ v <= camp[c].bid
               /\ v * 100 <= result.impressions * camp[c].cpm
               /\ \/ v = camp[c].bid
                  \/ (v + Cent) * 100 > result.impressions * camp[c].cpm
               /\ result.impressions > 0 =>
                     get_billable_amount(c, result.impressions - 1) <= v
          ELSE v = camp[c].bid

\* A flat-priced campaign with a cpm rate was billed less than its bid, for
\* impressions that pay for a cent and a part of the next.
C17_Witness ==
    /\ result.op = "get_billable_amount"
    /\ ~camp[result.campaign].priority_cpm
    /\ camp[result.campaign].has_cpm
    /\ result.value > 0
    /\ result.value < camp[result.campaign].bid
    /\ result.value * 100 < result.impressions * camp[result.campaign].cpm

\* ------------------------------------------------------- status of a link
\* Campaigns without a transaction, authorized and charged.
StatusProfiles ==
    <<Running(TRUE, 0, "none"), Running(TRUE, 1, "auth"),
      Running(TRUE, 1, "charged")>>

\* Links that were never paid for, that are accepted, and that finished an
\* earlier campaign.
InitStatus ==
    /\ \E la \in LinkAssignments :
          /\ \E pf \in ProfileChoices(Len(StatusProfiles)) :
                InitCampaigns(StatusProfiles, la, pf)
          /\ promote_status \in StatusChoices(la,
                {PROMOTE_STATUS.unpaid, PROMOTE_STATUS.accepted,
                 PROMOTE_STATUS.finished})
    /\ missing_traffic = {}
    /\ InitRest

\* auth_campaign, charge_pending for today and make_daily_promotions, called
\* in any order, one call after the other. The gateway authorizes or
\* declines; its other answers are exercised under SpecAuth.
NextStatus ==
    \/ /\ pc[1] = "idle"
       /\ \E c \in Campaigns : \E answer \in {"authorized", "declined"} :
             AuthCampaign(c, answer)
    \/ ChargeStart(1, 0, 1)
    \/ ChargeCheck(1)
    \/ ChargeTransaction(1)
    \/ ChargeDone(1)
    \/ /\ pc[1] = "idle"
       /\ MakeDaily(FALSE, {})

SpecStatus == InitStatus /\ [][NextStatus]_vars

\* C18 as stated: no call of auth_campaign, charge_pending or
\* make_daily_promotions moves a link to a lower status.
C18_StatusNeverLowered ==
    [][\A l \in Links : promote_status'[l] >= promote_status[l]]_vars

\* C18: a call of auth_campaign, charge_pending or make_daily_promotions
\* lowers the status of a link only when the link is finished and runs again:
\* charge_pending sets it to pending, make_daily_promotions to promoted.
C18_OnlyFinishedLinksRestart ==
    [][\A l \in Links :
          promote_status'[l] < promote_status[l] =>
             /\ promote_status[l] = PROMOTE_STATUS.finished
             /\ promote_status'[l] \in
                   {PROMOTE_STATUS.pending, PROMOTE_STATUS.promoted}
             /\ promote_status'[l] = PROMOTE_STATUS.pending =>
                   /\ Len(log'[l]) = Len(log[l]) + 1
                   /\ log'[l][Len(log'[l])][1] = "auth charge"
             /\ promote_status'[l] = PROMOTE_STATUS.promoted =>
                   /\ clock' # clock
                   /\ l \in {aw.link : aw \in live'[ALL_ADS]}]_vars

\* A campaign of a finished link was authorized, which left the link
\* finished, and charge_pending then set the link to pending.
C18_Witness ==
    /\ result.op = "auth_campaign"
    /\ result.ret
    /\ result.status = PROMOTE_STATUS.finished
    /\ promote_status[camp[result.campaign].link_id] = PROMOTE_STATUS.pending
    /\ \A c \in Campaigns : camp[c].link_id = camp[result.campaign].link_id
                               => c = result.campaign


\* ------------------------------------------------- lottery of promoted links
\* The weights of the entries in the store the lottery reads.
LotteryWeights == {-1, 0, 1, 2}

\* The audiences a site asks for (srids_from_site), as keys of the store.
LotteryAudiences == {FRONT_PAGE, "sra"}

\* get_live_promotions(srids): LiveAdWeights.get(srids), a list per key.
get_live_promotions(srids) == [k \in srids |-> live_get(live, k)]

\* total += weight over the entries given.
RECURSIVE total_weight(_)
total_weight(entries) ==
    IF entries = {} THEN 0
    ELSE LET e == CHOOSE x \in entries : TRUE
         IN e.weight + total_weight(entries \ {e})

\* get_promotion_list(srids): the entries of the audiences asked for, each
\* with weight / total as the pair <<weight, total>>; the division raises
\* ZeroDivisionError when there are entries and their total is 0.
get_promotion_list(srids) ==
    LET weights == get_live_promotions(srids)
        promos == UNION {weights[k] : k \in DOMAIN weights}
        total == total_weight(promos)
    IN IF DOMAIN weights = {} THEN [raised |-> FALSE, list |-> {}]
       ELSE IF promos # {} /\ total = 0 THEN [raised |-> TRUE, list |-> {}]
       ELSE [raised |-> FALSE,
             list |-> {[link |-> p.link, weight |-> <<p.weight, total>>,
                        campaign |-> p.campaign] : p \in promos}]

\* if p.weight: a quotient is falsy only when it is 0.
weight_truthy(w) == w[1] # 0

\* lottery_promoted_links(srids, n) up to its loop: the dictionary of
\* candidates is built, or get_promotion_list raised.
LotteryStart(srids, n) ==
    LET promo_tuples == get_promotion_list(srids)
    IN
    /\ IF result.op = "lottery_promoted_links"
       THEN result.state # "drawing" ELSE TRUE
    /\ result' = [op |-> "lottery_promoted_links", srids |-> srids, n |-> n,
                  weights |-> {p \in promo_tuples.list :
                                  weight_truthy(p.weight)},
                  selected |-> <<>>,
                  entries |-> UNION {live_get(live, k) : k \in srids},
                  state |-> IF promo_tuples.raised THEN "raised"
                            ELSE "drawing"]
    /\ UNCHANGED <<campVars, chargeVars, gatewayCounters, billingVars,
                   publishVars, promote_status, bid_status, log, pub>>

\* One turn of the loop: weighted_lottery picks a key, which is deleted from
\* the candidates and appended to the selection.
LotteryDraw ==
    /\ result.op = "lottery_promoted_links"
    /\ result.state = "drawing"
    /\ result.weights # {}
    /\ Len(result.selected) < result.n
    /\ \E s \in result.weights :
          result' = [result EXCEPT !.weights = @ \ {s},
                                   !.selected = Append(@, s)]
    /\ UNCHANGED <<campVars, chargeVars, gatewayCounters, billingVars,
                   publishVars, promote_status, bid_status, log, pub>>

\* weighted_lottery is given a weight that is not positive, for which it has
\* no contract, and raises.
LotteryDrawRaises ==
    /\ result.op = "lottery_promoted_links"
    /\ result.state = "drawing"
    /\ result.weights # {}
    /\ Len(result.selected) < result.n
    /\ \E s \in result.weights : s.weight[1] * s.weight[2] < 0
    /\ result' = [result EXCEPT !.state = "raised"]
    /\ UNCHANGED <<campVars, chargeVars, gatewayCounters, billingVars,
                   publishVars, promote_status, bid_status, log, pub>>

\* The loop ends: return selected.
LotteryReturn ==
    /\ result.op = "lottery_promoted_links"
    /\ result.state = "drawing"
    /\ result.weights = {} \/ Len(result.selected) >= result.n
    /\ result' = [result EXCEPT !.state = "returned"]
    /\ UNCHANGED <<campVars, chargeVars, gatewayCounters, billingVars,
                   publishVars, promote_status, bid_status, log, pub>>

\* set_live_promotions(by_srid) of a daily pass: each campaign is live in
\* its audience with some weight, or is not live.
LotteryPublish ==
    /\ \E S \in SUBSET Campaigns : \E w \in [S -> LotteryWeights] :
          live' = set_live_promotions(
                     [a \in {camp[c].sr_name : c \in S} |->
                        {[link |-> camp[c].link_id, weight |-> w[c],
                          campaign |-> c] :
                            c \in {d \in S : camp[d].sr_name = a}}])
    /\ UNCHANGED <<callVars, campVars, chargeVars, gatewayCounters,
                   billingVars, health, clock, last, over_18, queue,
                   promote_status, bid_status, log>>

\* Charged campaigns that run today, the first for the global audience and
\* the others for a subreddit; nothing is live yet.
InitLottery ==
    /\ camp = [c \in Campaigns |->
                 [exists |-> TRUE, link_id |-> ((c - 1) % NumLinks) + 1,
                  sr_name |-> IF c = 1 THEN "" ELSE "sra",
                  priority_cpm |-> TRUE, has_cpm |-> TRUE, cpm |-> 250,
                  bid |-> Cent, start_date |-> Today, end_date |-> Today]]
    /\ refund_amount = [c \in Campaigns |-> NoRefund]
    /\ trans_id = [c \in Campaigns |-> 1]
    /\ bid_status = [c \in Campaigns |-> "charged"]
    /\ impressions = [c \in Campaigns |-> 0]
    /\ promo_weights = WeightsOf(camp)
    /\ promote_status = [l \in Links |-> PROMOTE_STATUS.promoted]
    /\ missing_traffic = {}
    /\ InitRest

\* get_promotion_list(srids) called by itself.
GetPromotionList(srids) ==
    /\ IF result.op = "lottery_promoted_links"
       THEN result.state # "drawing" ELSE TRUE
    /\ \E r \in {get_promotion_list(srids)} :
          result' = [op |-> "get_promotion_list", srids |-> srids,
                     raised |-> r.raised, list |-> r.list,
                     entries |-> UNION {live_get(live, k) : k \in srids}]
    /\ UNCHANGED <<campVars, chargeVars, gatewayCounters, billingVars,
                   publishVars, promote_status, bid_status, log, pub>>

NextLottery ==
    \/ LotteryPublish
    \/ \E srids \in SUBSET LotteryAudiences : GetPromotionList(srids)
    \/ \E srids \in SUBSET LotteryAudiences : \E n \in 0..NumCampaigns :
          LotteryStart(srids, n)
    \/ LotteryDraw
    \/ LotteryDrawRaises
    \/ LotteryReturn

SpecLottery == InitLottery /\ [][NextLottery]_vars

\* C19: lottery_promoted_links(srids, n) returns distinct entries of the
\* store, each of positive weight, as many as min(n, number of entries of
\* positive weight for the audiences asked for); in particular an empty store
\* gives the empty sequence.
C19_LotteryReturnsPositiveEntries ==
    (result.op = "lottery_promoted_links" /\ result.state # "drawing") =>
       LET sel == result.selected
           pos == {e \in result.entries : e.weight > 0}
       IN /\ result.state = "returned"
          /\ \A i, j \in 1..Len(sel) : sel[i] = sel[j] => i = j
          /\ \A i \in 1..Len(sel) :
                /\ sel[i].weight[1] > 0
                /\ \E e \in pos : /\ e.link = sel[i].link
                                  /\ e.campaign = sel[i].campaign
                                  /\ e.weight = sel[i].weight[1]
          /\ Len(sel) = Min(result.n, Cardinality(pos))


\* ----------------------------------------------- finalize and the gateway
\* The campaigns a pass for daysago ago has to settle with a refund: they end
\* that day, have a gateway transaction, no refund amount, and a billable
\* amount below their bid.
OwedRefund(daysago) ==
    {c \in Campaigns :
        /\ camp[c].exists
        /\ camp[c].end_date = Today - daysago
        /\ trans_id[c] > 0
        /\ refund_amount[c] = NoRefund
        /\ get_billable_amount(c, get_billable_impressions(c)) < camp[c].bid}

\* C21 as stated: a pass that ran to its end has requested a refund from the
\* gateway for every campaign it owes one.
C21_FinalizeRequestsRefund ==
    [][\A d \in DaysAgo :
          (finalized'[d] = finalized[d] + 1 /\ OwedRefund(d) # {})
             => refund_reqs' >= refund_reqs + Cardinality(OwedRefund(d))]_vars

\* C21: a pass that ran to its end requests no refund from the gateway; every
\* campaign it owes a refund is marked underdelivered and keeps no refund
\* amount, for a later refund_campaign call to settle.
C21_FinalizeMarksUnderdelivered ==
    [][\A d \in DaysAgo :
          finalized'[d] = finalized[d] + 1 =>
             /\ refund_reqs' = refund_reqs
             /\ refunded' = refunded
             /\ \A c \in OwedRefund(d) :
                   /\ c \in underdelivered'
                   /\ refund_amount'[c] = NoRefund
                   /\ LET l == camp[c].link_id
                      IN \A i \in (Len(log[l]) + 1)..Len(log'[l]) :
                            log'[l][i][2] # c]_vars

\* A pass for yesterday ran to its end and left a campaign that is owed a
\* refund marked underdelivered, with no request made to the gateway.
C21_Witness ==
    /\ finalized[1] > 0
    /\ refund_reqs = 0
    /\ \E c \in OwedRefund(1) : c \in underdelivered


\* ------------------------------------------ a pass and a rejection overlap
\* make_daily_promotions up to the return of get_scheduled: the schedule is
\* computed from the links as they are now.
PassSchedule ==
    /\ clock < MaxRuns
    /\ IF result.op = "make_daily_promotions"
       THEN result.state = "launched" ELSE TRUE
    /\ LET sched == get_scheduled(0, {})
       IN result' = [op |-> "make_daily_promotions", state |-> "scheduled",
                     scheduled |-> sched.adweights,
                     errors |-> sched.error_campaigns,
                     current |-> {},
                     links |-> [l \in Links |-> PROMOTE_STATUS.unpaid],
                     at |-> clock + 1]
    /\ UNCHANGED <<campVars, chargeVars, gatewayCounters, billingVars,
                   publishVars, promote_status, bid_status, log, pub>>

\* The pass reads the live set and loads the links of both lists.
PassLoad ==
    /\ result.op = "make_daily_promotions"
    /\ result.state = "scheduled"
    /\ result' = [result EXCEPT !.state = "loaded",
                                !.current = live[ALL_ADS],
                                !.links = promote_status]
    /\ UNCHANGED <<campVars, chargeVars, gatewayCounters, billingVars,
                   publishVars, promote_status, bid_status, log, pub>>

\* The rest of the pass, not in test mode: the two loops over the links it
\* loaded, set_live_promotions, _mark_promos_updated and
\* finalize_completed_campaigns. set_promote_status writes the status of the
\* link object the pass loaded.
PassLaunch ==
    /\ result.op = "make_daily_promotions"
    /\ result.state = "loaded"
    /\ LET scheduled_adweights == result.scheduled
           expired_links == {aw.link : aw \in result.current}
                              \ {aw.link : aw \in scheduled_adweights}
           audiences == {camp[aw.campaign].sr_name :
                            aw \in scheduled_adweights}
           by_srid == [a \in audiences |->
                         {aw \in scheduled_adweights :
                             camp[aw.campaign].sr_name = a}]
           over18_links == {aw.link : aw \in {x \in scheduled_adweights :
                               camp[x.campaign].sr_name \in Over18Srs}}
           fin == finalize_completed_campaigns(1)
       IN /\ promote_status' =
                [l \in Links |->
                   IF l \in expired_links /\ is_promoted_status(result.links[l])
                   THEN PROMOTE_STATUS.finished
                   ELSE IF /\ l \in {aw.link : aw \in scheduled_adweights}
                           /\ is_accepted_status(result.links[l])
                           /\ ~is_promoted_status(result.links[l])
                   THEN PROMOTE_STATUS.promoted
                   ELSE promote_status[l]]
          /\ over_18' = [l \in Links |-> over_18[l] \/ l \in over18_links]
          /\ live' = set_live_promotions(by_srid)
          /\ clock' = clock + 1
          /\ health' = mark_promos_updated(FALSE, clock + 1)
          /\ last' = [outcome |-> pass_outcome(result.errors, fin.raised),
                      errors |-> result.errors,
                      scheduled |-> scheduled_adweights,
                      weights |-> by_srid,
                      published |-> TRUE, test |-> FALSE]
          /\ refund_amount' = fin.st.refund_amount
          /\ log' = fin.st.log
          /\ underdelivered' = fin.st.underdelivered
          /\ marks' = fin.st.marks
          /\ finalized' = IF fin.raised THEN finalized
                          ELSE [finalized EXCEPT ![1] = @ + 1]
    /\ result' = [result EXCEPT !.state = "launched"]
    /\ UNCHANGED <<campVars, chargeVars, gatewayCounters, bid_status, queue,
                   pub>>

\* Accepted and promoted links with charged campaigns.
InitRace ==
    /\ \E la \in LinkAssignments :
          /\ \E pf \in ProfileChoices(Len(PublishProfiles)) :
                InitCampaigns(PublishProfiles, la, pf)
          /\ promote_status \in StatusChoices(la,
                {PROMOTE_STATUS.accepted, PROMOTE_STATUS.promoted})
    /\ missing_traffic = {}
    /\ InitRest

\* Passes of make_daily_promotions, with links rejected before, between and
\* during them.
NextRace ==
    \/ PassSchedule
    \/ PassLoad
    \/ PassLaunch
    \/ \E l \in Links : RejectPromotion(l)

SpecRace == InitRace /\ [][NextRace]_vars

\* C22: the live set a pass publishes holds no link that reject_promotion
\* set to rejected while the pass was running.
C22_RejectedNotPublished ==
    [][(result.op = "make_daily_promotions" /\ result.state = "loaded"
        /\ result'.state = "launched")
       => \A l \in Links :
             promote_status[l] = PROMOTE_STATUS.rejected
                => l \notin {aw.link : aw \in live'[ALL_ADS]}]_vars


\* C23: the refunds the gateway accepted for a campaign add up to no more
\* than its bid, whatever refund_campaign calls were made.
C23_RefundsWithinBid ==
    \A c \in Campaigns : camp[c].exists => refunded[c] <= camp[c].bid


\* ------------------------------------------------- failures of a charge
\* C24: in charge_pending a charge the gateway declines or answers with a
\* fault changes no link status, no log and no transaction, and leaves every
\* campaign not yet handled to be checked; the call returns only when none is
\* left. A charge the gateway accepts sets a link that is not promoted to
\* pending, leaves a promoted link as it is, and is logged.
C24_FailedChargeSkipsCampaign ==
    [][/\ (pc[1] = "charge" /\ pc'[1] = "loop") =>
            LET c == cur[1]
                l == camp[c].link_id
            IN /\ todo' = todo
               /\ IF charge_acks' # charge_acks
                  THEN /\ promote_status' =
                             [promote_status EXCEPT ![l] =
                                IF @ = PROMOTE_STATUS.promoted THEN @
                                ELSE PROMOTE_STATUS.pending]
                       /\ log' = [log EXCEPT
                                    ![l] = Append(@, <<"auth charge", c>>)]
                  ELSE /\ promote_status' = promote_status
                       /\ log' = log
                       /\ bid_status' = bid_status
       /\ (pc[1] = "loop" /\ pc'[1] = "idle") => todo[1] = {}]_vars

\* A charge failed, which left the link and its log alone, and a later
\* campaign of the same run was charged, which set its link to pending.
C24_Witness ==
    /\ pc[1] = "loop"
    /\ \E c, d \in Campaigns :
          /\ c < d
          /\ <<c, 1, runs[1]>> \in charge_reqs \ charge_acks
          /\ <<d, 1, runs[1]>> \in charge_acks
          /\ promote_status[camp[d].link_id] = PROMOTE_STATUS.pending
          /\ camp[c].link_id # camp[d].link_id
          /\ log[camp[c].link_id] = <<>>


\* ------------------------------------------- statuses after a daily pass
\* The links of a set of AdWeights.
LinksOf(adweights) == {aw.link : aw \in adweights}

\* C25: after a pass that is not a test, every link with an entry in the
\* published live set is promoted; every link that was live, is not in the
\* new schedule and was promoted is finished; and no link of the new
\* schedule is finished.
C25_LiveLinksPromotedExpiredFinished ==
    [][(clock' # clock /\ ~last'.test) =>
         /\ \A l \in LinksOf(live'[ALL_ADS]) :
               promote_status'[l] = PROMOTE_STATUS.promoted
         /\ \A l \in LinksOf(live[ALL_ADS]) \ LinksOf(last'.scheduled) :
               promote_status[l] = PROMOTE_STATUS.promoted
                  => promote_status'[l] = PROMOTE_STATUS.finished
         /\ \A l \in LinksOf(last'.scheduled) :
               promote_status'[l] # PROMOTE_STATUS.finished]_vars

\* The latest pass published a live set with a promoted link in it, and
\* finished a link that had been live and promoted and dropped out of the
\* schedule.
C25_Witness ==
    /\ last.published
    /\ \E l \in LinksOf(live[ALL_ADS]) :
          promote_status[l] = PROMOTE_STATUS.promoted
    /\ \E l \in Links \ LinksOf(live[ALL_ADS]) :
          promote_status[l] = PROMOTE_STATUS.finished


\* ------------------------------------------------ a pass that is repeated
\* make_daily_promotions run again and again, never as a test, with nothing
\* else in between.
NextTwice ==
    \E raising \in SUBSET {pw.promo_idx : pw \in get_campaigns(Today)} :
       MakeDaily(FALSE, raising)

SpecTwice == InitPass /\ [][NextTwice]_vars

\* C26: a pass that follows a pass, with the same campaigns raising in both,
\* publishes the live set the first one published and changes no link's
\* status.
C26_SecondPassChangesNothing ==
    [][(clock' # clock /\ last.published /\ last'.errors = last.errors) =>
         /\ live' = live
         /\ promote_status' = promote_status]_vars

\* Two passes have run; the live set holds an entry and its link is promoted.
C26_Witness ==
    /\ clock >= 2
    /\ last.published
    /\ last.errors = {}
    /\ \E aw \in live[ALL_ADS] :
          promote_status[aw.link] = PROMOTE_STATUS.promoted


\* ----------------------------------------------------- the update queue
\* QUEUE_ALL, the message of Run, as a record like the messages of
\* queue_changed_promo.
QUEUE_ALL == [link |-> 0, message |-> "all"]

\* items = [i for i in items if i != QUEUE_ALL]
run_changed_items(msgs) == SelectSeq(msgs, LAMBDA m : m # QUEUE_ALL)

RECURSIVE run_changed_log_always(_, _, _)
\* Mutant: the entries are added whether the pass raised or not.
run_changed_log_always(items, raised, lg) ==
    IF items = <<>> THEN lg
    ELSE run_changed_log_always(Tail(items), raised,
            [lg EXCEPT ![Head(items).link] = Append(@, <<"remade", 0>>)])

RECURSIVE run_changed_log(_, _, _)
\* for item in items: PromotionLog.add(links[item['link']], ...), which is
\* not reached when make_daily_promotions raised.
run_changed_log(items, raised, lg) ==
    IF raised \/ items = <<>> THEN lg
    ELSE run_changed_log(Tail(items), raised,
            [lg EXCEPT ![Head(items).link] = Append(@, <<"remade", 0>>)])

\* Run puts QUEUE_ALL on the queue (its charge_pending calls are ChargeStart
\* to ChargeDone).
QueueAll ==
    /\ Len(queue) < MaxRuns
    /\ queue' = Append(queue, QUEUE_ALL)
    /\ UNCHANGED <<callVars, campVars, chargeVars, gatewayCounters, billingVars,
                   promote_status, bid_status, log, live, health, clock, last,
                   over_18>>

\* _run(msgs, chan) of run_changed for the first k messages of the queue.
\* When it raises, the queue collaborator delivers the batch again or not.
RunChanged(k, raising) ==
    /\ clock < MaxRuns
    /\ k \in 1..Len(queue)
    /\ LET msgs == SubSeq(queue, 1, k)
           rest == SubSeq(queue, k + 1, Len(queue))
           items == run_changed_items(msgs)
       IN \E r \in {make_daily_promotions(FALSE, raising)} :
          LET raised == r.last.outcome # "ok"
          IN
          /\ clock' = clock + 1
          /\ promote_status' = r.promote_status
          /\ over_18' = r.over_18
          /\ live' = r.live
          /\ health' = r.health
          /\ last' = r.last
          /\ refund_amount' = r.fin.st.refund_amount
          /\ underdelivered' = r.fin.st.underdelivered
          /\ marks' = r.fin.st.marks
          /\ finalized' = IF r.fin.raised THEN finalized
                          ELSE [finalized EXCEPT ![1] = @ + 1]
          /\ log' = run_changed_log(items, raised, r.fin.st.log)
          /\ queue' \in IF raised THEN {queue, rest} ELSE {rest}
          /\ result' = [op |-> "run_changed", msgs |-> msgs, raised |-> raised,
                        at |-> clock + 1, pass_log |-> r.fin.st.log]
    /\ UNCHANGED <<campVars, chargeVars, gatewayCounters, bid_status, pub>>

\* Accepted links, each campaign charged and running today on the global
\* audience.
QueueProfiles == SubSeq(PassProfiles, 1, 1)

InitQueue ==
    /\ \E la \in LinkAssignments :
          /\ \E pf \in ProfileChoices(Len(QueueProfiles)) :
                InitCampaigns(QueueProfiles, la, pf)
          /\ promote_status \in StatusChoices(la, {PROMOTE_STATUS.accepted})
    /\ missing_traffic = {}
    /\ InitRest

\* Run and reject_promotion put messages on the queue, run_changed consumes
\* them in batches.
NextQueue ==
    \/ QueueAll
    \/ \E l \in Links : RejectPromotion(l)
    \/ \E k \in 1..MaxRuns :
          \E raising \in SUBSET {pw.promo_idx : pw \in get_campaigns(Today)} :
             RunChanged(k, raising)

SpecQueue == InitQueue /\ [][NextQueue]_vars

\* The number of "remade" entries in a log.
Remade(lg) == Cardinality({i \in 1..Len(lg) : lg[i][1] = "remade"})

\* C27: a batch makes run_changed run one pass, whatever its messages; when
\* the pass returns, the log of each link ends with one entry per
\* LINK_CHANGED message of the batch for that link, added after the entries
\* of the pass; when the pass raises, no such entry is added.
C27_OnePassThenEntries ==
    [][(result'.op = "run_changed" /\ clock' # clock) =>
         LET msgs == result'.msgs
             n(l) == Cardinality({i \in 1..Len(msgs) : msgs[i].link = l})
         IN /\ clock' = clock + 1
            /\ result'.at = clock'
            /\ ~last'.test
            /\ result'.raised = (last'.outcome # "ok")
            /\ \A l \in Links :
                  IF result'.raised
                  THEN /\ log'[l] = result'.pass_log[l]
                       /\ Remade(log'[l]) = Remade(log[l])
                  ELSE /\ Len(log'[l]) = Len(result'.pass_log[l]) + n(l)
                       /\ SubSeq(log'[l], 1, Len(result'.pass_log[l]))
                             = result'.pass_log[l]
                       /\ Remade(log'[l]) = Remade(log[l]) + n(l)]_vars

\* A batch of a QUEUE_ALL and a LINK_CHANGED message was consumed by one pass
\* that returned, and the link got its entry.
C27_Witness ==
    /\ result.op = "run_changed"
    /\ ~result.raised
    /\ Len(result.msgs) = 2
    /\ \E i, j \in 1..2 : /\ result.msgs[i] = QUEUE_ALL
                          /\ result.msgs[j].link \in Links
                          /\ Remade(log[result.msgs[j].link]) = 1
    /\ clock = result.at


\* ------------------------------------- campaigns a finalize pass passes by
\* C28: a finalize_completed_campaigns pass for a day sets no refund amount
\* on, adds no audit entry for and does not mark as underdelivered a campaign
\* that has transaction id 0 or -1 or that does not end on that day; a pass
\* that raises changes nothing at all.
C28_OnlyCompletedPaidCampaigns ==
    [][/\ \A d \in DaysAgo :
            finalized'[d] # finalized[d] =>
               \A c \in Campaigns :
                  (trans_id[c] <= 0 \/ camp[c].end_date # Today - d) =>
                     /\ refund_amount'[c] = refund_amount[c]
                     /\ c \in underdelivered' <=> c \in underdelivered
                     /\ marks'[c] = marks[c]
                     /\ LET l == camp[c].link_id
                        IN \A i \in (Len(log[l]) + 1)..Len(log'[l]) :
                              log'[l][i][2] # c
       /\ finalized' = finalized =>
             /\ refund_amount' = refund_amount
             /\ underdelivered' = underdelivered
             /\ marks' = marks
             /\ log' = log]_vars

\* A pass for yesterday settled a campaign and passed by a freebie or a
\* campaign without a transaction that ended yesterday too.
C28_Witness ==
    /\ finalized[1] > 0
    /\ \E c \in Campaigns :
          /\ camp[c].end_date = Today - 1
          /\ trans_id[c] > 0
          /\ refund_amount[c] = 0 \/ c \in underdelivered
    /\ \E c \in Campaigns :
          /\ camp[c].exists
          /\ camp[c].end_date = Today - 1
          /\ trans_id[c] <= 0
          /\ refund_amount[c] = NoRefund
          /\ c \notin underdelivered


\* ------------------------------------------- weights of the promotion list
\* C29: get_promotion_list returns for every live set and every set of
\* audiences; a list that is not empty has one tuple per stored entry, its
\* weight the stored weight over the total of the stored weights, and the
\* weights add up to 1.
C29_PromotionListNormalised ==
    result.op = "get_promotion_list" =>
       LET total == total_weight(result.entries)
       IN /\ ~result.raised
          /\ result.list # {} =>
                /\ total # 0
                /\ result.list =
                      {[link |-> e.link, weight |-> <<e.weight, total>>,
                        campaign |-> e.campaign] : e \in result.entries}
                /\ total_weight({[weight |-> p.weight[1], link |-> p.link,
                                  campaign |-> p.campaign] :
                                     p \in result.list}) = total
          /\ result.entries # {} => result.list # {}


\* --------------------------------------------------------- a test pass
\* C30: a pass with test on changes no link's status or over-18 flag, leaves
\* the published live set as it is and does not write the health timestamp.
C30_TestPassLaunchesNothing ==
    [][(clock' # clock /\ last'.test) =>
         /\ promote_status' = promote_status
         /\ over_18' = over_18
         /\ live' = live
         /\ health' = health]_vars

\* A test pass scheduled an accepted link that is not promoted, on an
\* over-18 subreddit, and left it unpromoted, unflagged and out of the live
\* set.
C30_Witness ==
    /\ last.test
    /\ \E aw \in last.scheduled :
          /\ promote_status[aw.link] = PROMOTE_STATUS.accepted
          /\ camp[aw.campaign].sr_name \in Over18Srs
          /\ ~over_18[aw.link]
          /\ aw \notin live[ALL_ADS]
    /\ health < clock

====
